---- MODULE Spec2Model ----
(***************************************************************************)
(* Model of src/python/cnode_check.py: the Cardano node release monitor.   *)
(* One sequential process (start_monitoring) polls the release feed,       *)
(* compares the tag with the last one seen, writes the cache file and      *)
(* posts to Telegram.  The environment chooses each feed response, the     *)
(* outcome of each file operation and of each post, and may stop the       *)
(* process and start a new one on the same cache file.                     *)
(***************************************************************************)
EXTENDS Integers, Sequences, FiniteSets, TLC

\* Number of distinct tag strings the feed may carry.  Tags are numbered;
\* the numbers stand for arbitrary distinct strings (a smaller number is an
\* "older-looking" tag).
MaxTag == 2

Tags == 1..MaxTag

\* Python's None for self.last_release / a JSON null / a missing key.
None == 0

(***************************************************************************)
(* The cache file cardano_node_last_release.json.                          *)
(***************************************************************************)
FileMissing == [kind |-> "missing", last_release |-> None]

\* An empty or malformed file: json.load raises.
FileCorrupt == [kind |-> "corrupt", last_release |-> None]

\* A file that exists and cannot be opened for reading: open() raises.
FileUnreadable == [kind |-> "unreadable", last_release |-> None]

\* A JSON object without the key last_release.
FileNoKey == [kind |-> "nokey", last_release |-> None]

\* {"last_release": x}; x = None is a JSON null.
FileJson(x) == [kind |-> "json", last_release |-> x]

CacheFiles == {FileMissing, FileUnreadable, FileCorrupt, FileNoKey} \cup {FileJson(x) : x \in Tags \cup {None}}

\* Outcomes of _save_cache's file operations: the write succeeds; open()
\* fails and the file is untouched; open() truncated the file and the write
\* (or the flush at close) fails, leaving an empty file.
SaveOutcomes == {"ok", "open_fails", "write_fails"}

(***************************************************************************)
(* Feed responses.  kind: "transport" (requests.get raises), "http"        *)
(* (raise_for_status raises), "badjson" (response.json() raises), "ok"     *)
(* (a JSON object).  For "ok": tag_name is a tag or None when the key is   *)
(* missing; name and html_url say whether the key is present; body is      *)
(* "missing", "null" or "text".  "none" is the absence of a response or    *)
(* of a release (Python's None).                                           *)
(***************************************************************************)
Rec(k, t, n, u, b) == [kind |-> k, tag_name |-> t, name |-> n, html_url |-> u, body |-> b]

Nothing == Rec("none", None, FALSE, FALSE, "missing")

FeedFailures == {Rec(k, None, FALSE, FALSE, "missing") : k \in {"transport", "http", "badjson"}}

\* The shapes of a JSON object the feed is taken to return: complete, or with
\* one of the keys the program reads missing, or with a null body (a release
\* without a description).
Complete(t) == Rec("ok", t, TRUE, TRUE, "text")

FeedRecords == {Rec("ok", None, TRUE, TRUE, "text")} \cup UNION {{Complete(t), [Complete(t) EXCEPT !.name = FALSE], [Complete(t) EXCEPT !.html_url = FALSE], [Complete(t) EXCEPT !.body = "missing"], [Complete(t) EXCEPT !.body = "null"]} : t \in Tags}

Responses == FeedFailures \cup FeedRecords

(***************************************************************************)
(* The program's functions, as operators.                                  *)
(***************************************************************************)

\* Variant: a missing key reads as the empty string (data.get with a
\* default of ''), written -1.
LoadCacheEmptyDefault(file) ==
    IF file.kind \in {"missing", "unreadable", "corrupt"} THEN None
    ELSE IF file.kind = "nokey" THEN -1
    ELSE file.last_release

\* Variant: the parsed JSON object itself is kept as the identifier (the
\* lookup of the key left out); -1 stands for that object.
LoadCacheWholeObject(file) ==
    IF file.kind \in {"missing", "unreadable", "corrupt"} THEN None ELSE -1

\* _load_cache, called once by __init__ after last_release = None: the
\* value of self.last_release after the call.
LoadCache(file) ==
    IF file.kind = "missing" THEN None
    ELSE IF file.kind = "unreadable" THEN None
    ELSE IF file.kind = "corrupt" THEN None
    ELSE file.last_release

\* _save_cache: the file after the call; no exception leaves it.
SaveCache(last, file, outcome) ==
    IF outcome = "ok" THEN FileJson(last)
    ELSE IF outcome = "open_fails" THEN file
    ELSE FileCorrupt

\* What requests.post and raise_for_status do in send_message: the endpoint
\* answers 2xx; it answers another status (raise_for_status raises); the
\* post itself raises (transport error).
PostOutcomes == {"2xx", "status", "transport"}

\* Variant: the status of the answer is not looked at (raise_for_status
\* left out).
SendMessageAnyStatus(kind, tag, post) == [kind |-> kind, tag |-> tag, post |-> post, ok |-> post # "transport"]

\* TelegramNotifier.send_message: one post of a message of the given kind
\* (about the given tag); ok is what the call returns.
SendMessage(kind, tag, post) == [kind |-> kind, tag |-> tag, post |-> post, ok |-> post = "2xx"]

Effect(raised, ret, last, file, written, warnings) == [raised |-> raised, ret |-> ret, last_release |-> last, cache_file |-> file, cache_written |-> written, warnings |-> warnings]

\* Variant: the branch for a changed tag returns the record without
\* recording the tag (line 105 left out).
CheckNewReleaseKeepsLast(last, file, resp, json_caught, outcome) ==
    IF resp.kind \in {"transport", "http"} \/ (resp.kind = "badjson" /\ json_caught)
    THEN Effect(FALSE, Nothing, last, file, FALSE, 1)
    ELSE IF resp.kind = "badjson" \/ resp.tag_name = None
    THEN Effect(TRUE, Nothing, last, file, FALSE, 0)
    ELSE IF last = None
    THEN Effect(FALSE, Nothing, resp.tag_name, SaveCache(resp.tag_name, file, outcome), TRUE, 0)
    ELSE IF resp.tag_name # last
    THEN Effect(FALSE, resp, last, SaveCache(last, file, outcome), TRUE, 0)
    ELSE Effect(FALSE, Nothing, last, file, FALSE, 0)

\* Variant: only a tag that orders after the last one counts as new.
CheckNewReleaseNewerOnly(last, file, resp, json_caught, outcome) ==
    IF resp.kind \in {"transport", "http"} \/ (resp.kind = "badjson" /\ json_caught)
    THEN Effect(FALSE, Nothing, last, file, FALSE, 1)
    ELSE IF resp.kind = "badjson" \/ resp.tag_name = None
    THEN Effect(TRUE, Nothing, last, file, FALSE, 0)
    ELSE IF last = None
    THEN Effect(FALSE, Nothing, resp.tag_name, SaveCache(resp.tag_name, file, outcome), TRUE, 0)
    ELSE IF resp.tag_name > last
    THEN Effect(FALSE, resp, resp.tag_name, SaveCache(resp.tag_name, file, outcome), TRUE, 0)
    ELSE Effect(FALSE, Nothing, last, file, FALSE, 0)

\* Variant: a failed poll writes the cache too.
CheckNewReleaseSavesOnFailure(last, file, resp, json_caught, outcome) ==
    IF resp.kind \in {"transport", "http"} \/ (resp.kind = "badjson" /\ json_caught)
    THEN Effect(FALSE, Nothing, last, SaveCache(last, file, outcome), TRUE, 1)
    ELSE IF resp.kind = "badjson" \/ resp.tag_name = None
    THEN Effect(TRUE, Nothing, last, file, FALSE, 0)
    ELSE IF last = None
    THEN Effect(FALSE, Nothing, resp.tag_name, SaveCache(resp.tag_name, file, outcome), TRUE, 0)
    ELSE IF resp.tag_name # last
    THEN Effect(FALSE, resp, resp.tag_name, SaveCache(resp.tag_name, file, outcome), TRUE, 0)
    ELSE Effect(FALSE, Nothing, last, file, FALSE, 0)

\* Variant: the branch for a changed tag records the tag in memory and
\* returns the record; the cache is not written (the write is left for
\* after the notification).
CheckNewReleaseWritesLater(last, file, resp, json_caught, outcome) ==
    IF resp.kind \in {"transport", "http"} \/ (resp.kind = "badjson" /\ json_caught)
    THEN Effect(FALSE, Nothing, last, file, FALSE, 1)
    ELSE IF resp.kind = "badjson" \/ resp.tag_name = None
    THEN Effect(TRUE, Nothing, last, file, FALSE, 0)
    ELSE IF last = None
    THEN Effect(FALSE, Nothing, resp.tag_name, SaveCache(resp.tag_name, file, outcome), TRUE, 0)
    ELSE IF resp.tag_name # last
    THEN Effect(FALSE, resp, resp.tag_name, file, FALSE, 0)
    ELSE Effect(FALSE, Nothing, last, file, FALSE, 0)

\* Variant: a changed tag is saved before it is assigned, so the file gets
\* the previous identifier.
CheckNewReleaseSavesStale(last, file, resp, json_caught, outcome) ==
    IF resp.kind \in {"transport", "http"} \/ (resp.kind = "badjson" /\ json_caught)
    THEN Effect(FALSE, Nothing, last, file, FALSE, 1)
    ELSE IF resp.kind = "badjson" \/ resp.tag_name = None
    THEN Effect(TRUE, Nothing, last, file, FALSE, 0)
    ELSE IF last = None
    THEN Effect(FALSE, Nothing, resp.tag_name, SaveCache(resp.tag_name, file, outcome), TRUE, 0)
    ELSE IF resp.tag_name # last
    THEN Effect(FALSE, resp, resp.tag_name, SaveCache(last, file, outcome), TRUE, 0)
    ELSE Effect(FALSE, Nothing, last, file, FALSE, 0)

\* Variant: the cache is written after every successful poll.
CheckNewReleaseAlwaysSaves(last, file, resp, json_caught, outcome) ==
    IF resp.kind \in {"transport", "http"} \/ (resp.kind = "badjson" /\ json_caught)
    THEN Effect(FALSE, Nothing, last, file, FALSE, 1)
    ELSE IF resp.kind = "badjson" \/ resp.tag_name = None
    THEN Effect(TRUE, Nothing, last, file, FALSE, 0)
    ELSE IF last = None
    THEN Effect(FALSE, Nothing, resp.tag_name, SaveCache(resp.tag_name, file, outcome), TRUE, 0)
    ELSE IF resp.tag_name # last
    THEN Effect(FALSE, resp, resp.tag_name, SaveCache(resp.tag_name, file, outcome), TRUE, 0)
    ELSE Effect(FALSE, Nothing, last, SaveCache(last, file, outcome), TRUE, 0)

\* Variant: the first run returns the record it observed.
CheckNewReleaseNotifiesFirst(last, file, resp, json_caught, outcome) ==
    IF resp.kind \in {"transport", "http"} \/ (resp.kind = "badjson" /\ json_caught)
    THEN Effect(FALSE, Nothing, last, file, FALSE, 1)
    ELSE IF resp.kind = "badjson" \/ resp.tag_name = None
    THEN Effect(TRUE, Nothing, last, file, FALSE, 0)
    ELSE IF last = None
    THEN Effect(FALSE, resp, resp.tag_name, SaveCache(resp.tag_name, file, outcome), TRUE, 0)
    ELSE IF resp.tag_name # last
    THEN Effect(FALSE, resp, resp.tag_name, SaveCache(resp.tag_name, file, outcome), TRUE, 0)
    ELSE Effect(FALSE, Nothing, last, file, FALSE, 0)

\* Variant: a failed poll is logged and no warning is posted.
CheckNewReleaseSilentFailure(last, file, resp, json_caught, outcome) ==
    IF resp.kind \in {"transport", "http"} \/ (resp.kind = "badjson" /\ json_caught)
    THEN Effect(FALSE, Nothing, last, file, FALSE, 0)
    ELSE IF resp.kind = "badjson" \/ resp.tag_name = None
    THEN Effect(TRUE, Nothing, last, file, FALSE, 0)
    ELSE IF last = None
    THEN Effect(FALSE, Nothing, resp.tag_name, SaveCache(resp.tag_name, file, outcome), TRUE, 0)
    ELSE IF resp.tag_name # last
    THEN Effect(FALSE, resp, resp.tag_name, SaveCache(resp.tag_name, file, outcome), TRUE, 0)
    ELSE Effect(FALSE, Nothing, last, file, FALSE, 0)

\* Variant: the identifier is recorded, and the record returned, only when
\* the cache write succeeded.
CheckNewReleaseNeedsWrite(last, file, resp, json_caught, outcome) ==
    IF resp.kind \in {"transport", "http"} \/ (resp.kind = "badjson" /\ json_caught)
    THEN Effect(FALSE, Nothing, last, file, FALSE, 1)
    ELSE IF resp.kind = "badjson" \/ resp.tag_name = None
    THEN Effect(TRUE, Nothing, last, file, FALSE, 0)
    ELSE IF resp.tag_name # last /\ outcome # "ok"
    THEN Effect(FALSE, Nothing, last, SaveCache(resp.tag_name, file, outcome), TRUE, 0)
    ELSE IF last = None
    THEN Effect(FALSE, Nothing, resp.tag_name, SaveCache(resp.tag_name, file, outcome), TRUE, 0)
    ELSE IF resp.tag_name # last
    THEN Effect(FALSE, resp, resp.tag_name, SaveCache(resp.tag_name, file, outcome), TRUE, 0)
    ELSE Effect(FALSE, Nothing, last, file, FALSE, 0)

\* check_new_release on in-memory identifier last and cache file file, for
\* feed response resp.  json_caught: whether the installed requests raises
\* its own JSONDecodeError (a RequestException) from response.json().
\* raised: an exception other than RequestException leaves the method.
CheckNewRelease(last, file, resp, json_caught, outcome) ==
    IF resp.kind \in {"transport", "http"} \/ (resp.kind = "badjson" /\ json_caught)
    THEN Effect(FALSE, Nothing, last, file, FALSE, 1)
    ELSE IF resp.kind = "badjson" \/ resp.tag_name = None
    THEN Effect(TRUE, Nothing, last, file, FALSE, 0)
    ELSE IF last = None
    THEN Effect(FALSE, Nothing, resp.tag_name, SaveCache(resp.tag_name, file, outcome), TRUE, 0)
    ELSE IF resp.tag_name # last
    THEN Effect(FALSE, resp, resp.tag_name, SaveCache(resp.tag_name, file, outcome), TRUE, 0)
    ELSE Effect(FALSE, Nothing, last, file, FALSE, 0)

\* notify / format_telegram_message: whether reading release_info raises
\* (KeyError on a missing key, TypeError on len(None)).
NotifyRaises(release_info) ==
    \/ ~release_info.name
    \/ ~release_info.html_url
    \/ release_info.body # "text"

(***************************************************************************)
(* The cache file as text.  An identifier is a sequence of characters; the *)
(* file holds what json.dump writes for {'last_release': identifier} with  *)
(* the defaults (ensure_ascii, separators ', ' and ': ').  A character is  *)
(* a string; EAcute stands for one character outside ASCII (U+00E9), and   *)
(* the key last_release for the characters of the key.                     *)
(***************************************************************************)
Quote == "\""

Backslash == "\\"

Newline == "\n"

EAcute == "U+00E9"

IdChars == {"a", "1", Quote, Backslash, Newline, EAcute}

\* Longest identifier tried.
MaxIdLen == 3

RECURSIVE StringsUpTo(_, _)
StringsUpTo(chars, n) ==
    IF n = 0 THEN {<< >>}
    ELSE LET shorter == StringsUpTo(chars, n - 1) IN
         shorter \cup {Append(s, c) : s \in shorter, c \in chars}

\* The non-empty identifiers tried.
Identifiers == StringsUpTo(IdChars, MaxIdLen) \ {<< >>}

\* An optional string: self.last_release as text.
Absent == [present |-> FALSE, value |-> << >>]

Some(x) == [present |-> TRUE, value |-> x]

\* The cache file as text: no file, or a file with its characters.
NoFile == [exists |-> FALSE, text |-> << >>]

FileText(t) == [exists |-> TRUE, text |-> t]

\* json's escape of one character of a string.
EscapeChar(c) ==
    CASE c = Quote -> <<Backslash, Quote>>
      [] c = Backslash -> <<Backslash, Backslash>>
      [] c = Newline -> <<Backslash, "n">>
      [] c = EAcute -> <<Backslash, "u", "0", "0", "e", "9">>
      [] OTHER -> <<c>>

RECURSIVE EscapeString(_)
EscapeString(x) == IF x = << >> THEN << >> ELSE EscapeChar(Head(x)) \o EscapeString(Tail(x))

\* json's text of a string.
JsonString(x) == <<Quote>> \o EscapeString(x) \o <<Quote>>

\* Variant: the identifier is written between quotes as it is (the file
\* written by hand instead of by json.dump).
JsonDumpUnescaped(x) == <<"{">> \o JsonString(<<"last_release">>) \o <<":", " ", Quote>> \o x \o <<Quote, "}">>

\* json.dump({'last_release': x}, f): the text written.
JsonDump(x) == <<"{">> \o JsonString(<<"last_release">>) \o <<":", " ">> \o JsonString(x) \o <<"}">>

ScanFailed == [ok |-> FALSE, value |-> << >>, next |-> 0]

\* json's scan of a string whose opening quote is before position i: the
\* characters up to the closing quote, and the position after it.
RECURSIVE ScanString(_, _, _)
ScanString(text, i, acc) ==
    IF i > Len(text) THEN ScanFailed
    ELSE IF text[i] = Quote THEN [ok |-> TRUE, value |-> acc, next |-> i + 1]
    ELSE IF text[i] = Backslash THEN
        IF i + 1 > Len(text) THEN ScanFailed
        ELSE IF text[i + 1] = Quote THEN ScanString(text, i + 2, Append(acc, Quote))
        ELSE IF text[i + 1] = Backslash THEN ScanString(text, i + 2, Append(acc, Backslash))
        ELSE IF text[i + 1] = "n" THEN ScanString(text, i + 2, Append(acc, Newline))
        ELSE IF text[i + 1] = "u" /\ i + 5 <= Len(text) /\ SubSeq(text, i + 2, i + 5) = <<"0", "0", "e", "9">>
        THEN ScanString(text, i + 6, Append(acc, EAcute))
        ELSE ScanFailed
    ELSE IF text[i] = Newline THEN ScanFailed
    ELSE ScanString(text, i + 1, Append(acc, text[i]))

\* json.load(f) followed by data.get('last_release'), for a text that holds
\* an object of one member with a string value: the value of the key, Absent
\* when the key is another one or when json.load raises.
JsonLoadGet(text) ==
    IF Len(text) < 2 \/ text[1] # "{" \/ text[2] # Quote THEN Absent
    ELSE LET key == ScanString(text, 3, << >>) IN
         IF ~key.ok \/ key.next + 2 > Len(text) THEN Absent
         ELSE IF text[key.next] # ":" \/ text[key.next + 1] # " " \/ text[key.next + 2] # Quote THEN Absent
         ELSE LET val == ScanString(text, key.next + 3, << >>) IN
              IF ~val.ok \/ val.next # Len(text) \/ text[val.next] # "}" THEN Absent
              ELSE IF key.value = <<"last_release">> THEN Some(val.value)
              ELSE Absent

\* _load_cache on the file as text: self.last_release after the call.
LoadCacheText(file) == IF file.exists THEN JsonLoadGet(file.text) ELSE Absent

\* _save_cache on the file as text, the write succeeding.
SaveCacheText(x) == FileText(JsonDump(x))

(***************************************************************************)
(* Tags as text, and _parse_version.                                       *)
(***************************************************************************)
Digits == <<"0", "1", "2", "3", "4", "5", "6", "7", "8", "9">>

IsDigit(c) == \E d \in 1..Len(Digits) : Digits[d] = c

DigitValue(c) == (CHOOSE d \in 1..Len(Digits) : Digits[d] = c) - 1

\* int(s) succeeds, for s over the characters tried (decimal digits, no
\* sign, no blank): s is a non-empty string of digits.
IsInt(s) == s # << >> /\ \A i \in 1..Len(s) : IsDigit(s[i])

\* int(s) for such a string.
RECURSIVE IntOf(_)
IntOf(s) == IF s = << >> THEN 0 ELSE IntOf(SubSeq(s, 1, Len(s) - 1)) * 10 + DigitValue(s[Len(s)])

\* s.lstrip(c): s without all its leading characters c.
RECURSIVE LStrip(_, _)
LStrip(s, c) == IF s # << >> /\ Head(s) = c THEN LStrip(Tail(s), c) ELSE s

\* s.split(sep), given the segment cur read so far: the segments of s.
RECURSIVE SplitFrom(_, _, _)
SplitFrom(s, sep, cur) ==
    IF s = << >> THEN <<cur>>
    ELSE IF Head(s) = sep THEN <<cur>> \o SplitFrom(Tail(s), sep, << >>)
    ELSE SplitFrom(Tail(s), sep, Append(cur, Head(s)))

Split(s, sep) == SplitFrom(s, sep, << >>)

\* The result of _parse_version: (main_version, is_pre).
Version(main, pre) == [main_version |-> main, is_pre |-> pre]

\* The except branch of _parse_version.
Fallback == Version(<<0, 0, 0>>, FALSE)

\* tuple(map(int, segment.split('.'))) and is_pre, for the string left of a
\* tag after its prefix is removed; Fallback when an int() raises.
ParseStripped(version) ==
    LET version_parts == Split(version, "-")
        numbers == Split(version_parts[1], ".")
    IN IF \A i \in 1..Len(numbers) : IsInt(numbers[i])
       THEN Version([i \in 1..Len(numbers) |-> IntOf(numbers[i])], Len(version_parts) > 1)
       ELSE Fallback

\* _parse_version(tag_name).
ParseVersion(tag) == ParseStripped(LStrip(tag, "v"))

(***************************************************************************)
(* format_telegram_message.  The message is the list the function joins    *)
(* with newlines: a sequence of parts, each with the text interpolated in  *)
(* it.                                                                     *)
(***************************************************************************)
UpperCase == <<"A", "B", "C", "D", "E", "F", "G", "H", "I", "J", "K", "L", "M", "N", "O", "P", "Q", "R", "S", "T", "U", "V", "W", "X", "Y", "Z">>

LowerCase == <<"a", "b", "c", "d", "e", "f", "g", "h", "i", "j", "k", "l", "m", "n", "o", "p", "q", "r", "s", "t", "u", "v", "w", "x", "y", "z">>

\* c.lower() and c.upper() for one character: a letter of the other case
\* is replaced, any other character is kept.
LowerChar(c) == IF \E i \in 1..Len(UpperCase) : UpperCase[i] = c THEN LowerCase[CHOOSE i \in 1..Len(UpperCase) : UpperCase[i] = c] ELSE c

UpperChar(c) == IF \E i \in 1..Len(LowerCase) : LowerCase[i] = c THEN UpperCase[CHOOSE i \in 1..Len(LowerCase) : LowerCase[i] = c] ELSE c

\* s.lower()
Lower(s) == [i \in 1..Len(s) |-> LowerChar(s[i])]

\* k in s, for strings.
Contains(s, k) == \E i \in 1..(Len(s) - Len(k) + 1) : SubSeq(s, i, i + Len(k) - 1) = k

\* important_keywords
ImportantKeywords == <<<<"b", "r", "e", "a", "k", "i", "n", "g", " ", "c", "h", "a", "n", "g", "e">>, <<"u", "p", "g", "r", "a", "d", "e", " ", "r", "e", "q", "u", "i", "r", "e", "d">>, <<"m", "a", "n", "d", "a", "t", "o", "r", "y", " ", "u", "p", "g", "r", "a", "d", "e">>>>

\* len(notes) > 500
NotesLimit == 500

\* notes[:497]
NotesKeep == 497

Ellipsis == <<".", ".", ".">>

Part(kind, text) == [part |-> kind, text |-> text]

\* Variant: the notes are cut at the limit itself (notes[:500] + "...").
ShownNotesCutAtLimit(body) == IF Len(body) > NotesLimit THEN SubSeq(body, 1, NotesLimit) \o Ellipsis ELSE body

\* The notes as they appear in the message.
ShownNotes(body) == IF Len(body) > NotesLimit THEN SubSeq(body, 1, NotesKeep) \o Ellipsis ELSE body

\* Variant: the keywords are looked for in the notes as shown
\* (notes.lower() instead of release_info['body'].lower()).
ImportantPartsOfShown(body) ==
    LET release_notes_lower == Lower(ShownNotes(body))
        matched == SelectSeq(ImportantKeywords, LAMBDA keyword : Contains(release_notes_lower, keyword))
    IN [i \in 1..Len(matched) |-> Part("important", matched[i])]

\* The loop over important_keywords: the parts it appends.
ImportantParts(body) ==
    LET release_notes_lower == Lower(body)
        matched == SelectSeq(ImportantKeywords, LAMBDA keyword : Contains(release_notes_lower, keyword))
    IN [i \in 1..Len(matched) |-> Part("important", matched[i])]

\* The parts for release_info['assets'], a list of asset names.
AssetParts(assets) == IF assets = << >> THEN << >> ELSE <<Part("downloads", << >>)>> \o [i \in 1..Len(assets) |-> Part("asset", assets[i])]

\* format_telegram_message(release_info), every key present and body a
\* string.
FormatTelegramMessage(info) ==
    LET version_info == ParseVersion(info.tag_name) IN
    <<Part("header", << >>), Part("version", info.tag_name), Part("name", info.name)>>
    \o (IF version_info.is_pre THEN <<Part("prerelease", << >>)>> ELSE << >>)
    \o <<Part("url", info.html_url)>>
    \o AssetParts(info.assets)
    \o <<Part("notes", ShownNotes(info.body))>>
    \o ImportantParts(info.body)

\* Variant: the loop goes to sleep whatever the check returned.
AfterCheckSkipsNotify(ret) == "sleep"

\* start_monitoring, line 184: what follows a check that returned ret.
AfterCheck(ret) == IF ret # Nothing THEN "notify" ELSE "sleep"

\* start_monitoring, lines 185-187: what follows notify.
AfterNotify == "sleep"

\* start_monitoring, lines 189 and 182-183: what follows the sleep.
AfterSleep == "check"

\* start_monitoring, lines 177-183: what follows the startup message.
AfterStartup == "check"

(***************************************************************************)
(* State.                                                                  *)
(*   pc            where the process is: "start" (constructed, before the  *)
(*                 startup message), "check", "notify", "sleep", or        *)
(*                 "crashed" (an exception left start_monitoring)          *)
(*   last_release  self.last_release                                       *)
(*   cache_file    the cache file on disk                                  *)
(*   new_release   the value start_monitoring holds from the last check    *)
(*   response      the feed response of the last check (Nothing before the *)
(*                 first check of the process)                             *)
(* History of the current process:                                         *)
(*   sent          the posts attempted by the last step, in order          *)
(*   saved         what _save_cache did in the last check: "none" when it  *)
(*                 was not called, else the outcome of the write           *)
(*   last_event    the last step taken                                     *)
(*   repeated      whether the last check's response carried the tag_name  *)
(*                 of the response of the call before it                   *)
(*   returned      the tags for which a check returned a record            *)
(*   last_returned the tag of the last record a check returned, if any     *)
(*   seeded        the tag a first-run check recorded, if any              *)
(* History across processes:                                               *)
(*   observed_before  the tags seeded or returned in earlier processes     *)
(*   restarted     whether the process was started on an earlier one's file*)
(*   undelivered   the tag of a record that a check returned and whose     *)
(*                 release post has not succeeded, while no successful     *)
(*                 poll has carried another tag since; with it, how the    *)
(*                 tag was committed: "saved" (the cache write succeeded), *)
(*                 "memory" (it failed; the tag is in this process's       *)
(*                 memory) or "lost" (it failed and the process is gone)   *)
(***************************************************************************)
VARIABLES pc, last_release, cache_file, new_release, response, sent, saved, last_event, repeated, returned, last_returned, seeded, observed_before, restarted, undelivered

proc_vars == <<pc, last_release, cache_file, new_release, response, sent, saved, last_event, repeated, returned, last_returned, seeded, observed_before, restarted, undelivered>>

(***************************************************************************)
(* State of the specifications of single functions, which run a function   *)
(* on an input while the process above is off (and are off while it runs). *)
(*   stage         "off", or how far the function under study has got      *)
(*   ident         the identifier to save                                  *)
(*   file_text     the cache file as text                                  *)
(*   last_release_text  self.last_release as text                          *)
(*   and below, the argument and the result of the other functions         *)
(***************************************************************************)
VARIABLES stage, ident, file_text, last_release_text

\*   tag_name      the argument of _parse_version
\*   parsed        its result
VARIABLES tag_name, parsed

\*   release_info  the argument of format_telegram_message
\*   message       its result
VARIABLES release_info, message

cache_vars == <<ident, file_text, last_release_text>>

parse_vars == <<tag_name, parsed>>

format_vars == <<release_info, message>>

fn_vars == <<stage, cache_vars, parse_vars, format_vars>>

vars == <<proc_vars, fn_vars>>

CacheOff ==
    /\ ident = << >>
    /\ file_text = NoFile
    /\ last_release_text = Absent

ParseOff ==
    /\ tag_name = << >>
    /\ parsed = Fallback

\* A release record as format_telegram_message reads it.
Release(tag, name, url, assets, body) == [tag_name |-> tag, name |-> name, html_url |-> url, assets |-> assets, body |-> body]

FormatOff ==
    /\ release_info = Release(<< >>, << >>, << >>, << >>, << >>)
    /\ message = << >>

\* The single functions are not under study.
FnOff ==
    /\ stage = "off"
    /\ CacheOff
    /\ ParseOff
    /\ FormatOff

Undelivered(tag, commit) == [tag |-> tag, commit |-> commit]

NoUndelivered == Undelivered(None, "none")

\* CardanoNodeMonitor.__init__ on the cache file as it is.
Construct ==
    /\ last_release' = LoadCache(cache_file)
    /\ pc' = "start"
    /\ new_release' = Nothing
    /\ response' = Nothing
    /\ sent' = << >>
    /\ saved' = "none"
    /\ last_event' = "construct"
    /\ repeated' = FALSE
    /\ returned' = {}
    /\ last_returned' = None
    /\ seeded' = None

Init ==
    /\ cache_file \in CacheFiles
    /\ last_release = LoadCache(cache_file)
    /\ pc = "start"
    /\ new_release = Nothing
    /\ response = Nothing
    /\ sent = << >>
    /\ saved = "none"
    /\ last_event = "construct"
    /\ repeated = FALSE
    /\ returned = {}
    /\ last_returned = None
    /\ seeded = None
    /\ observed_before = {}
    /\ restarted = FALSE
    /\ undelivered = NoUndelivered
    /\ FnOff

\* start_monitoring up to the loop: the startup message.
Startup ==
    /\ pc = "start"
    /\ \E post \in PostOutcomes : sent' = <<SendMessage("startup", None, post)>>
    /\ pc' = AfterStartup
    /\ last_event' = "startup"
    /\ UNCHANGED <<last_release, cache_file, new_release, response, saved, repeated, returned, last_returned, seeded, observed_before, restarted, undelivered>>
    /\ UNCHANGED fn_vars

\* The environment's choices that a call of check_new_release with response
\* resp consults: how response.json() fails, what the cache write does, what
\* the post of the warning does.  A choice the call never consults is fixed.
JsonChoices(resp) == IF resp.kind = "badjson" THEN BOOLEAN ELSE {TRUE}

SaveChoices(last, resp) == IF resp.kind = "ok" /\ resp.tag_name \notin {None, last} THEN SaveOutcomes ELSE {"ok"}

PostChoices(resp) == IF resp.kind = "ok" THEN {"2xx"} ELSE PostOutcomes

\* One call of check_new_release and the test of its result.
Check ==
    /\ pc = "check"
    /\ \E resp \in Responses :
       \E json_caught \in JsonChoices(resp), outcome \in SaveChoices(last_release, resp), post \in PostChoices(resp) :
        LET e == CheckNewRelease(last_release, cache_file, resp, json_caught, outcome) IN
        /\ response' = resp
        /\ last_release' = e.last_release
        /\ cache_file' = e.cache_file
        /\ saved' = IF e.cache_written THEN outcome ELSE "none"
        /\ sent' = [i \in 1..e.warnings |-> SendMessage("warning", None, post)]
        /\ new_release' = IF e.raised THEN new_release ELSE e.ret
        /\ pc' = IF e.raised THEN "crashed" ELSE AfterCheck(e.ret)
        /\ repeated' = (resp.kind = "ok" /\ response.kind = "ok" /\ resp.tag_name # None /\ resp.tag_name = response.tag_name)
        /\ returned' = IF e.ret # Nothing THEN returned \cup {e.ret.tag_name} ELSE returned
        /\ last_returned' = IF e.ret # Nothing THEN e.ret.tag_name ELSE last_returned
        /\ seeded' = IF last_release = None /\ e.last_release # None THEN e.last_release ELSE seeded
        /\ undelivered' = IF e.ret # Nothing THEN Undelivered(e.ret.tag_name, IF outcome = "ok" THEN "saved" ELSE "memory")
                           ELSE IF resp.kind = "ok" /\ resp.tag_name # undelivered.tag THEN NoUndelivered
                           ELSE undelivered
    /\ last_event' = "check"
    /\ UNCHANGED <<observed_before, restarted>>
    /\ UNCHANGED fn_vars

\* notify(new_release): console output, format_telegram_message, one post.
Notify ==
    /\ pc = "notify"
    /\ IF NotifyRaises(new_release)
       THEN /\ pc' = "crashed"
            /\ sent' = << >>
       ELSE /\ pc' = AfterNotify
            /\ \E post \in PostOutcomes : sent' = <<SendMessage("release", new_release.tag_name, post)>>
    /\ undelivered' = IF sent' # << >> /\ sent'[1].ok THEN NoUndelivered ELSE undelivered
    /\ last_event' = "notify"
    /\ UNCHANGED <<last_release, cache_file, new_release, response, saved, repeated, returned, last_returned, seeded, observed_before, restarted>>
    /\ UNCHANGED fn_vars

\* time.sleep(check_interval) returns.
Sleep ==
    /\ pc = "sleep"
    /\ pc' = AfterSleep
    /\ sent' = << >>
    /\ last_event' = "sleep"
    /\ UNCHANGED <<last_release, cache_file, new_release, response, saved, repeated, returned, last_returned, seeded, observed_before, restarted, undelivered>>
    /\ UNCHANGED fn_vars

\* The process is stopped (killed, or dead after a crash) and the script is
\* run again: a new monitor is constructed on the same cache file.
Restart ==
    /\ Construct
    /\ observed_before' = observed_before \cup returned \cup ({seeded} \ {None})
    /\ restarted' = TRUE
    /\ undelivered' = IF undelivered.commit = "memory" THEN Undelivered(undelivered.tag, "lost") ELSE undelivered
    /\ UNCHANGED cache_file
    /\ UNCHANGED fn_vars

Next == Startup \/ Check \/ Notify \/ Sleep \/ Restart

Spec == Init /\ [][Next]_vars

\* The steps, as seen in the state.
CheckStep == pc = "check" /\ last_event' = "check"

NotifyStep == pc = "notify" /\ last_event' = "notify"

SleepStep == pc = "sleep" /\ last_event' = "sleep"

StartupStep == pc = "start" /\ last_event' = "startup"

RestartStep == last_event' = "construct" /\ restarted'

\* The step was a check that returned a release record.
CheckReturned == CheckStep /\ pc' = "notify"

\* The identifier a monitor constructed on the file would load.
Persisted(file) == LoadCache(file)

(***************************************************************************)
(* Release detection.                                                      *)
(***************************************************************************)

\* C1 (as stated): during the life of a monitor, check_new_release returns a
\* release record for a given tag_name at most once, also when the feed
\* changes away from a tag and back to it.
C1_AtMostOncePerTag == [][CheckReturned => new_release'.tag_name \notin returned]_vars

\* C1 (amended): a check never returns a record for the tag_name the monitor
\* recorded last: the tag of a returned record differs from the in-memory
\* identifier before the call, from the tag of the record returned before it
\* and, when no record was returned yet, from the seeded tag.
C1_NeverSameAsLast ==
    [][CheckReturned =>
        /\ new_release'.tag_name # last_release
        /\ new_release'.tag_name # last_returned
        /\ (returned = {} => new_release'.tag_name # seeded)]_vars

\* C1 witness: a record was returned for a tag that an earlier check of the
\* same monitor returned, another tag having been returned in between.
C1_Witness ==
    /\ pc = "notify"
    /\ last_event = "check"
    /\ Cardinality(returned) = 2
    /\ seeded # None
    /\ new_release.tag_name # seeded
    /\ ~restarted

\* C2 (as stated): a successful response whose tag_name differs from the
\* persisted identifier (one exists) makes check_new_release return the full
\* record, and the persisted state is the new tag_name when the call ends.
C2_DiffersFromPersisted ==
    [][(/\ CheckStep
        /\ response'.kind = "ok"
        /\ response'.tag_name # None
        /\ Persisted(cache_file) # None
        /\ response'.tag_name # Persisted(cache_file))
       => /\ pc' = "notify"
          /\ new_release' = response'
          /\ Persisted(cache_file') = response'.tag_name]_vars

\* C2 (amended): a successful response whose tag_name differs from the
\* in-memory last-seen identifier (one exists) makes check_new_release return
\* the full record, set the in-memory identifier to the new tag_name and call
\* _save_cache; the persisted state is the new tag_name when that write
\* succeeds.  The comparison is inequality: an older-looking tag counts.
C2_DiffersFromLastSeen ==
    [][(/\ CheckStep
        /\ response'.kind = "ok"
        /\ response'.tag_name # None
        /\ last_release # None
        /\ response'.tag_name # last_release)
       => /\ pc' = "notify"
          /\ new_release' = response'
          /\ last_release' = response'.tag_name
          /\ saved' # "none"
          /\ (saved' = "ok" => cache_file' = FileJson(response'.tag_name))]_vars

\* C2 witness: a check returned the record of a tag that orders before the
\* one seeded, and wrote it to the cache.
C2_Witness ==
    /\ pc = "notify"
    /\ last_event = "check"
    /\ new_release = response
    /\ seeded # None
    /\ returned = {new_release.tag_name}
    /\ new_release.tag_name < seeded
    /\ saved = "ok"
    /\ cache_file = FileJson(new_release.tag_name)

\* C3: a successful response that carries the tag_name of the previous
\* call's response makes check_new_release return nothing, and leaves the
\* cache file and the in-memory identifier as they were, without a write.
C3_SameTagNoChange ==
    [][(/\ CheckStep
        /\ response.kind = "ok"
        /\ response'.kind = "ok"
        /\ response'.tag_name # None
        /\ response'.tag_name = response.tag_name)
       => /\ pc' = "sleep"
          /\ new_release' = Nothing
          /\ cache_file' = cache_file
          /\ last_release' = last_release
          /\ saved' = "none"
          /\ sent' = << >>]_vars

\* C3 witness: a check has run on a response with the tag of the call
\* before it, in a process whose cache write had failed.
C3_Witness ==
    /\ last_event = "check"
    /\ repeated
    /\ pc = "sleep"
    /\ saved = "none"
    /\ last_release = response.tag_name
    /\ Persisted(cache_file) # last_release

\* C4 (as stated): the very first call ever, with no prior persisted state,
\* returns nothing whatever release the feed carries, persists the observed
\* tag_name, and no release notification is sent for it.
C4_FirstRunPersists ==
    [][(/\ CheckStep
        /\ ~restarted
        /\ response = Nothing
        /\ Persisted(cache_file) = None
        /\ response'.kind = "ok"
        /\ response'.tag_name # None)
       => /\ pc' = "sleep"
          /\ new_release' = Nothing
          /\ sent' = << >>
          /\ Persisted(cache_file') = response'.tag_name]_vars

\* C4 (amended): the very first call ever, with no prior persisted state,
\* returns nothing whatever release the feed carries, records the observed
\* tag_name in memory and calls _save_cache, which persists it when the write
\* succeeds; no release notification is sent for it.
C4_FirstRunSeeds ==
    [][(/\ CheckStep
        /\ ~restarted
        /\ response = Nothing
        /\ Persisted(cache_file) = None
        /\ response'.kind = "ok"
        /\ response'.tag_name # None)
       => /\ pc' = "sleep"
          /\ new_release' = Nothing
          /\ sent' = << >>
          /\ last_release' = response'.tag_name
          /\ saved' # "none"
          /\ (saved' = "ok" => cache_file' = FileJson(response'.tag_name))]_vars

\* C4 witness: the first check of the first process has seeded and persisted
\* the tag it observed.
C4_Witness ==
    /\ ~restarted
    /\ last_event = "check"
    /\ pc = "sleep"
    /\ seeded = response.tag_name
    /\ seeded # None
    /\ returned = {}
    /\ ~repeated
    /\ saved = "ok"
    /\ cache_file = FileJson(seeded)

\* C5 (as stated): after a restart on the same cache file, a check whose
\* response carries a tag_name observed (seeded or returned) before the
\* restart returns nothing.
C5_NoRenotifyObserved ==
    [][(/\ CheckStep
        /\ restarted
        /\ response'.kind = "ok"
        /\ response'.tag_name \in observed_before)
       => pc' # "notify"]_vars

\* C5 (amended): after a restart on the same cache file, a check whose
\* response carries the tag_name stored in the cache file returns nothing and
\* posts nothing, as long as the new process has recorded no other tag.
C5_NoRenotifyPersisted ==
    [][(/\ CheckStep
        /\ restarted
        /\ seeded = None
        /\ returned = {}
        /\ response'.kind = "ok"
        /\ response'.tag_name # None
        /\ cache_file = FileJson(response'.tag_name))
       => /\ pc' = "sleep"
          /\ new_release' = Nothing
          /\ sent' = << >>
          /\ cache_file' = cache_file]_vars

\* C5 witness: a restarted process has checked a response with the tag that
\* an earlier process observed and left in the cache file.
C5_Witness ==
    /\ restarted
    /\ last_event = "check"
    /\ pc = "sleep"
    /\ response.kind = "ok"
    /\ response.tag_name \in observed_before
    /\ cache_file = FileJson(response.tag_name)
    /\ seeded = None
    /\ returned = {}

(***************************************************************************)
(* Failures.                                                               *)
(***************************************************************************)

\* C6: whatever the feed poll, the cache write and the posts do, a check is
\* followed by the notification or the sleep of its cycle, and a
\* notification by the sleep: nothing leaves start_monitoring.
C6_FailuresContained ==
    [][/\ (CheckStep => pc' \in {"notify", "sleep"})
       /\ (NotifyStep => pc' = "sleep")]_vars

\* C7: a transport or HTTP failure of the poll makes check_new_release
\* return nothing and attempt exactly one warning post, and leaves the cache
\* file and the in-memory identifier as they were.
C7_PollFailure ==
    [][(CheckStep /\ response'.kind \in {"transport", "http"})
       => /\ pc' = "sleep"
          /\ new_release' = Nothing
          /\ Len(sent') = 1
          /\ sent'[1].kind = "warning"
          /\ cache_file' = cache_file
          /\ last_release' = last_release
          /\ saved' = "none"]_vars

\* C7 witness: a poll failed in a process that had recorded an identifier,
\* and the warning post failed too.
C7_Witness ==
    /\ last_event = "check"
    /\ response.kind \in {"transport", "http"}
    /\ pc = "sleep"
    /\ last_release # None
    /\ Len(sent) = 1
    /\ ~sent[1].ok

(***************************************************************************)
(* The scheduler loop.                                                     *)
(***************************************************************************)

\* The cache write of the last check, if it succeeded, is on disk.
CacheSettled == saved = "ok" => cache_file = FileJson(last_release)

\* C8: the startup post is attempted once, right after construction and
\* before the first check; the first check follows it without a sleep and
\* every other check follows exactly one sleep; a notification follows a
\* check that returned a record and attempts the release post; a sleep
\* follows a check that returned nothing or the notification of the record
\* it returned, with the check's cache write done.
C8_SchedulerOrder ==
    [][/\ (StartupStep => last_event = "construct" /\ Len(sent') = 1 /\ sent'[1].kind = "startup")
       /\ (\A i \in 1..Len(sent') : sent'[i].kind = "startup" => StartupStep)
       /\ (CheckStep => \/ last_event = "startup" /\ response = Nothing
                        \/ last_event = "sleep" /\ response # Nothing)
       /\ (NotifyStep => last_event = "check" /\ new_release # Nothing /\ new_release = response /\ CacheSettled)
       /\ (NotifyStep /\ pc' = "sleep" => sent' = <<SendMessage("release", new_release.tag_name, sent'[1].post)>>)
       /\ (SleepStep => /\ CacheSettled
                        /\ \/ last_event = "check" /\ new_release = Nothing
                           \/ last_event = "notify" /\ Len(sent) = 1 /\ sent[1].kind = "release")]_vars

\* C8 witness: the loop is about to sleep after a check that wrote the cache
\* and a notification of the record it returned.
C8_Witness ==
    /\ pc = "sleep"
    /\ last_event = "notify"
    /\ saved = "ok"
    /\ Len(sent) = 1
    /\ sent[1].kind = "release"
    /\ sent[1].tag = last_release

\* C9: the loop has no terminal state: in every reachable state the process
\* has a next step, so that a new check is eventually started.
C9_NoTerminalState == ENABLED (Startup \/ Check \/ Notify \/ Sleep)

\* Whether outcome of _save_cache is a failed write.
WriteFailed(outcome) == outcome \in {"open_fails", "write_fails"}

\* What C10 says of a check whose cache write failed and of the checks
\* after it: the check returns what it returns when the write succeeds, the
\* in-memory identifier is the new tag, nothing is posted about the failure,
\* and a following check with that tag returns nothing.
FailedWriteNotFatal ==
    /\ (CheckStep /\ WriteFailed(saved')
        => /\ pc' \in {"notify", "sleep"}
           /\ new_release' = CheckNewRelease(last_release, cache_file, response', TRUE, "ok").ret
           /\ last_release' = response'.tag_name
           /\ sent' = << >>)
    /\ (CheckStep /\ WriteFailed(saved) /\ response'.kind = "ok" /\ response'.tag_name = response.tag_name
        => pc' = "sleep" /\ new_release' = Nothing /\ sent' = << >>)

\* C10 (as stated): a failed cache write is not fatal and the in-memory
\* identifier stays right for the process; the new identifier is lost on
\* restart: a monitor reconstructed from the cache file does not load it.
C10_LostOnRestart ==
    [][/\ FailedWriteNotFatal
       /\ (RestartStep /\ WriteFailed(saved) => last_release' # last_release)]_vars

\* C10 (amended): a failed cache write is not fatal and the in-memory
\* identifier stays right for the process; the failed write stores nothing:
\* the file keeps its content or is left empty, and a monitor reconstructed
\* from it loads what the file held before the write, or nothing (so the new
\* identifier only when the file already held it).
C10_FailedWrite ==
    [][/\ FailedWriteNotFatal
       /\ (CheckStep /\ WriteFailed(saved')
           => /\ cache_file' \in {cache_file, FileCorrupt}
              /\ Persisted(cache_file') \in {Persisted(cache_file), None})
       /\ (RestartStep /\ WriteFailed(saved) => last_release' = Persisted(cache_file))]_vars

\* C10 witness: a check returned a record though its cache write failed,
\* and the file holds another identifier than the process.
C10_Witness ==
    /\ last_event = "check"
    /\ pc = "notify"
    /\ WriteFailed(saved)
    /\ new_release = response
    /\ last_release = response.tag_name
    /\ Persisted(cache_file) # last_release

(***************************************************************************)
(* Posts.                                                                  *)
(***************************************************************************)

\* The kinds of feed response that check_new_release handles as a failed poll.
PollFailures == {"transport", "http", "badjson"}

ProcOff ==
    /\ pc = "off"
    /\ last_release = None
    /\ cache_file = FileMissing
    /\ new_release = Nothing
    /\ response = Nothing
    /\ sent = << >>
    /\ saved = "none"
    /\ last_event = "off"
    /\ repeated = FALSE
    /\ returned = {}
    /\ last_returned = None
    /\ seeded = None
    /\ observed_before = {}
    /\ restarted = FALSE
    /\ undelivered = NoUndelivered

\* A monitor constructed where no cache file exists, and an identifier.
CacheInit ==
    /\ ProcOff
    /\ ParseOff
    /\ FormatOff
    /\ stage = "new"
    /\ ident \in Identifiers
    /\ file_text = NoFile
    /\ last_release_text = LoadCacheText(NoFile)

\* self.last_release = ident; self._save_cache(), the write succeeding.
SaveIdent ==
    /\ stage = "new"
    /\ last_release_text' = Some(ident)
    /\ file_text' = SaveCacheText(ident)
    /\ stage' = "saved"
    /\ UNCHANGED <<ident, proc_vars, parse_vars, format_vars>>

\* A new monitor is constructed on the same cache path: last_release = None,
\* then _load_cache.
Reconstruct ==
    /\ stage = "saved"
    /\ last_release_text' = LoadCacheText(file_text)
    /\ stage' = "loaded"
    /\ UNCHANGED <<ident, file_text, proc_vars, parse_vars, format_vars>>

CacheNext == SaveIdent \/ Reconstruct

CacheSpec == CacheInit /\ [][CacheNext]_vars

\* C12: for a non-empty identifier x, saving x with a successful write and
\* then loading in a monitor reconstructed on the same cache path yields the
\* last-seen identifier x.
C12_RoundTrip == stage = "loaded" => last_release_text = Some(ident)

\* C12 witness: an identifier with a quote, a backslash and a character
\* outside ASCII has been saved and loaded again.
C12_Witness ==
    /\ stage = "loaded"
    /\ last_release_text.present
    /\ {Quote, Backslash, EAcute} \subseteq {ident[i] : i \in 1..Len(ident)}
    /\ Len(file_text.text) > Len(ident) + 8

(***************************************************************************)
(* _parse_version on tags as text.                                         *)
(***************************************************************************)
TagChars == {"v", "1", "2", ".", "-", "x"}

\* Longest tag tried, apart from the tags of the specification's examples.
MaxTagLen == 4

\* 'v1.2.3', 'v1.2.3-rc1', 'not-a-version'.
ExampleTags == {<<"v", "1", ".", "2", ".", "3">>, <<"v", "1", ".", "2", ".", "3", "-", "r", "c", "1">>, <<"n", "o", "t", "-", "a", "-", "v", "e", "r", "s", "i", "o", "n">>}

TagTexts == StringsUpTo(TagChars, MaxTagLen) \cup ExampleTags

ParseInit ==
    /\ ProcOff
    /\ CacheOff
    /\ FormatOff
    /\ stage = "new"
    /\ tag_name \in TagTexts
    /\ parsed = Fallback

\* One call of _parse_version(tag_name).
ParseTag ==
    /\ stage = "new"
    /\ parsed' = ParseVersion(tag_name)
    /\ stage' = "parsed"
    /\ UNCHANGED <<tag_name, proc_vars, cache_vars, format_vars>>

ParseNext == ParseTag

ParseSpec == ParseInit /\ [][ParseNext]_vars

\* The reference parser of C15: strip one leading 'v' if present, then
\* split and convert as _parse_version does.
StripOne(s, c) == IF s # << >> /\ Head(s) = c THEN Tail(s) ELSE s

ReferenceParse(tag) == ParseStripped(StripOne(tag, "v"))

\* C15: _parse_version(tag) equals the reference parser (strip one leading
\* 'v'; split the rest on '-'; dot-split the first segment into integers;
\* pre-release iff there is a segment after the first; ((0,0,0), false) on
\* any failure) for every tag over the alphabet, and on the three examples.
C15_ParseIsReference ==
    /\ (stage = "parsed" => parsed = ReferenceParse(tag_name))
    /\ (stage = "parsed" /\ tag_name = <<"v", "1", ".", "2", ".", "3">> => parsed = Version(<<1, 2, 3>>, FALSE))
    /\ (stage = "parsed" /\ tag_name = <<"v", "1", ".", "2", ".", "3", "-", "r", "c", "1">> => parsed = Version(<<1, 2, 3>>, TRUE))
    /\ (stage = "parsed" /\ tag_name \in ExampleTags /\ Head(tag_name) = "n" => parsed = Fallback)

\* What holds of C15: the examples, and agreement with the reference parser
\* on every tag that does not begin with two 'v'.
C15_ParseIsReferenceButVV ==
    /\ (stage = "parsed" /\ ~(Len(tag_name) >= 2 /\ tag_name[1] = "v" /\ tag_name[2] = "v") => parsed = ReferenceParse(tag_name))
    /\ (stage = "parsed" /\ tag_name = <<"v", "1", ".", "2", ".", "3">> => parsed = Version(<<1, 2, 3>>, FALSE))
    /\ (stage = "parsed" /\ tag_name = <<"v", "1", ".", "2", ".", "3", "-", "r", "c", "1">> => parsed = Version(<<1, 2, 3>>, TRUE))
    /\ (stage = "parsed" /\ tag_name \in ExampleTags /\ Head(tag_name) = "n" => parsed = Fallback)

(***************************************************************************)
(* format_telegram_message on release notes as text.                       *)
(***************************************************************************)

\* Characters of the notes that are in no keyword.
FillerChars == <<"x", "z", "j", "w", "f", "l", "s">>

\* n characters of notes, a different one at neighbouring positions.
Filler(n) == [i \in 1..n |-> FillerChars[(i % Len(FillerChars)) + 1]]

\* How far around 0 and around the cut the lengths tried go.
MaxPad == 2

\* Lengths tried before a mention: short, around the cut and the limit,
\* and long (600 when the limit is 500).
PadLengths == (0..MaxPad) \cup ((NotesKeep - MaxPad)..(NotesLimit + MaxPad)) \cup {NotesLimit + 100}

Upper(s) == [i \in 1..Len(s) |-> UpperChar(s[i])]

\* s with the first letter of each word in upper case.
Title(s) == [i \in 1..Len(s) |-> IF i = 1 \/ s[i - 1] = " " THEN UpperChar(s[i]) ELSE s[i]]

\* s with character c put in after its first n characters.
Broken(s, n, c) == SubSeq(s, 1, n) \o <<c>> \o SubSeq(s, n + 1, Len(s))

\* What the notes may say between the filler: nothing; a keyword in lower
\* case, upper case or title case; a keyword broken by another character;
\* 'Mandatory Upgrade Required', which holds the third and the second
\* keyword; the third keyword followed by the first.
Mentions ==
    {<< >>}
    \cup {ImportantKeywords[k] : k \in 1..Len(ImportantKeywords)}
    \cup {Upper(ImportantKeywords[k]) : k \in 1..Len(ImportantKeywords)}
    \cup {Title(ImportantKeywords[k]) : k \in 1..Len(ImportantKeywords)}
    \cup {Broken(ImportantKeywords[k], Len(ImportantKeywords[k]) - 1, "x") : k \in 1..Len(ImportantKeywords)}
    \cup {Title(ImportantKeywords[3]) \o SubSeq(Title(ImportantKeywords[2]), 8, Len(ImportantKeywords[2]))}
    \cup {ImportantKeywords[3] \o <<" ">> \o Upper(ImportantKeywords[1])}

Bodies == {Filler(n) \o mention \o Filler(m) : n \in PadLengths, mention \in Mentions, m \in {0, 1}}

FormatInit ==
    /\ ProcOff
    /\ CacheOff
    /\ ParseOff
    /\ stage = "new"
    /\ \E tag \in {<<"v", "1", ".", "2">>, <<"v", "1", "-", "r", "c">>}, assets \in {<< >>, <<<<"a">>>>}, body \in Bodies :
        release_info = Release(tag, <<"N">>, <<"U">>, assets, body)
    /\ message = << >>

\* One call of format_telegram_message(release_info).
FormatMessage ==
    /\ stage = "new"
    /\ message' = FormatTelegramMessage(release_info)
    /\ stage' = "formatted"
    /\ UNCHANGED <<release_info, proc_vars, cache_vars, parse_vars>>

FormatNext == FormatMessage

FormatSpec == FormatInit /\ [][FormatNext]_vars

\* The positions of the message with the release notes.
NotesAt == {i \in 1..Len(message) : message[i].part = "notes"}

\* C16: release notes longer than 500 characters appear in the message as
\* their first 497 characters followed by '...', 500 characters in all;
\* notes of 500 characters or fewer, the empty string included, appear
\* unchanged.
C16_NotesTruncated ==
    stage = "formatted" =>
        /\ Cardinality(NotesAt) = 1
        /\ \A i \in NotesAt :
            LET body == release_info.body
                shown == message[i].text
            IN IF Len(body) > 500
               THEN /\ Len(shown) = 500
                    /\ \A j \in 1..497 : shown[j] = body[j]
                    /\ \A j \in 498..500 : shown[j] = "."
                    /\ shown # body
               ELSE shown = body

\* C16 witness: notes of 501 characters have been formatted and shown cut.
C16_Witness ==
    /\ stage = "formatted"
    /\ Len(release_info.body) = 501
    /\ \E i \in NotesAt : Len(message[i].text) = 500 /\ message[i].text[500] = "."

\* keyword occurs in body at position i, letters compared without case.
OccursAt(body, keyword, i) == i + Len(keyword) - 1 <= Len(body) /\ \A j \in 1..Len(keyword) : LowerChar(body[i + j - 1]) = keyword[j]

Occurs(body, keyword) == \E i \in 1..Len(body) : OccursAt(body, keyword, i)

\* C17: for each keyword of the list the message has a warning line naming
\* it iff the keyword occurs, compared case-insensitively, anywhere in the
\* full notes; the warning lines are the last parts of the message, right
\* after the release notes, one per matched keyword, in list order.
C17_KeywordLines ==
    stage = "formatted" =>
        LET lines == {i \in 1..Len(message) : message[i].part = "important"} IN
        /\ \A k \in 1..Len(ImportantKeywords) :
              Occurs(release_info.body, ImportantKeywords[k]) <=> \E i \in lines : message[i].text = ImportantKeywords[k]
        /\ \A i \in lines : \E k \in 1..Len(ImportantKeywords) : message[i].text = ImportantKeywords[k]
        /\ \A i, j \in lines : i < j =>
              \E k, l \in 1..Len(ImportantKeywords) : k < l /\ message[i].text = ImportantKeywords[k] /\ message[j].text = ImportantKeywords[l]
        /\ \A i \in NotesAt : lines = (i + 1)..Len(message)

\* C17 witness: 'Mandatory Upgrade Required' stands beyond character 497 of
\* the notes, and the message ends with the lines for 'upgrade required'
\* and 'mandatory upgrade', in this order.
C17_Witness ==
    /\ stage = "formatted"
    /\ Len(message) >= 2
    /\ Len(release_info.body) > 500
    /\ message[Len(message) - 1] = Part("important", ImportantKeywords[2])
    /\ message[Len(message)] = Part("important", ImportantKeywords[3])
    /\ ~Occurs(SubSeq(release_info.body, 1, 500), ImportantKeywords[2])
    /\ ~Occurs(SubSeq(release_info.body, 1, 500), ImportantKeywords[3])
    /\ \E i \in 498..Len(release_info.body) : release_info.body[i] = "M"

(***************************************************************************)
(* Claims about the loop, continued (specification Spec).                  *)
(***************************************************************************)

\* The cache files that hold no identifier: missing, unreadable, malformed,
\* without the key, or with a null value.
NoPriorFiles == {FileMissing, FileUnreadable, FileCorrupt, FileNoKey, FileJson(None)}

\* No check of this process has succeeded yet.
NoSuccessYet == seeded = None /\ returned = {}

\* C13 (as stated): a monitor constructed on a cache file that is missing,
\* unreadable, malformed, without the key last_release or with a null value
\* is constructed without error and with no last-seen identifier, and its
\* next successful check returns nothing and persists the observed tag.
C13_NoPriorPersists ==
    [][/\ (last_event = "construct" /\ cache_file \in NoPriorFiles => pc = "start" /\ last_release = None)
       /\ ((/\ CheckStep
            /\ NoSuccessYet
            /\ cache_file \in NoPriorFiles
            /\ response'.kind = "ok"
            /\ response'.tag_name # None)
           => /\ pc' = "sleep"
              /\ new_release' = Nothing
              /\ Persisted(cache_file') = response'.tag_name)]_vars

\* C13 (amended): as above, but the observed tag is recorded in memory and
\* handed to _save_cache, which persists it when the write succeeds.
C13_NoPriorSeeds ==
    [][/\ (last_event = "construct" /\ cache_file \in NoPriorFiles => pc = "start" /\ last_release = None)
       /\ ((/\ CheckStep
            /\ NoSuccessYet
            /\ cache_file \in NoPriorFiles
            /\ response'.kind = "ok"
            /\ response'.tag_name # None)
           => /\ pc' = "sleep"
              /\ new_release' = Nothing
              /\ last_release' = response'.tag_name
              /\ saved' # "none"
              /\ (~WriteFailed(saved') => Persisted(cache_file') = response'.tag_name))]_vars

\* C13 witness: a process started on a cache file that holds no identifier
\* although an earlier process had observed a tag (the file was left
\* malformed, or never written); its first successful check has seeded and
\* persisted the tag, returning nothing.
C13_Witness ==
    /\ restarted
    /\ observed_before # {}
    /\ last_event = "check"
    /\ pc = "sleep"
    /\ response.kind = "ok"
    /\ seeded = response.tag_name
    /\ seeded # None
    /\ returned = {}
    /\ new_release = Nothing
    /\ saved = "ok"
    /\ cache_file = FileJson(seeded)

\* The tag_name of the most recent check of this process that seeded the
\* state or returned a record (a process seeds at most once, before any
\* check returns a record); None when there is none yet.
MostRecentUpdate == IF last_returned # None THEN last_returned ELSE seeded

\* What C14 says of the in-memory identifier in an idle state: it is the tag
\* of the most recent seeding or returning check, and absent only if no poll
\* has succeeded.
IdleMemory ==
    pc = "sleep" =>
        /\ (MostRecentUpdate # None => last_release = MostRecentUpdate)
        /\ (last_release = None => NoSuccessYet /\ response.kind \in PollFailures)

\* C14 (as stated): in every state in which the loop is idle between checks
\* the persisted identifier equals the in-memory one, both equal the
\* tag_name of the most recent check that seeded the state or returned a
\* record, and both are absent only if no poll has yet succeeded.
C14_IdleAgrees ==
    /\ IdleMemory
    /\ (pc = "sleep" => Persisted(cache_file) = last_release)
    /\ (pc = "sleep" /\ Persisted(cache_file) = None => observed_before = {})

\* C14 (amended): in every idle state the in-memory identifier is the tag
\* of the most recent seeding or returning check of the process and is
\* absent only if no poll has succeeded; the persisted identifier equals it
\* at construction and after every check whose cache write succeeds, and
\* neither changes otherwise.
C14_IdleFollowsWrites ==
    [][/\ IdleMemory
       /\ (last_event = "construct" => last_release = Persisted(cache_file))
       /\ (CheckStep /\ saved' = "ok" => Persisted(cache_file') = last_release' /\ last_release' = response'.tag_name)
       /\ (CheckStep /\ saved' = "none" => cache_file' = cache_file /\ last_release' = last_release)
       /\ (~CheckStep => cache_file' = cache_file)
       /\ (~CheckStep /\ ~RestartStep => last_release' = last_release)]_vars

\* C14 witness: the loop is idle after a check that returned a record for a
\* tag other than the seeded one; memory and file hold that tag.
C14_Witness ==
    /\ pc = "sleep"
    /\ last_event = "notify"
    /\ seeded # None
    /\ last_returned \notin {None, seeded}
    /\ last_release = last_returned
    /\ Persisted(cache_file) = last_returned

\* A check whose response carries the undelivered tag.
CarriesUndelivered ==
    /\ CheckStep
    /\ undelivered.tag # None
    /\ response'.kind = "ok"
    /\ response'.tag_name = undelivered.tag

\* C18 (as stated): when send_message is called for the record of tag T that
\* a check returned, the in-memory and the persisted identifier are already
\* T; if that send fails, or the process is stopped between the cache write
\* and the send, every later check, in the same process or after a restart,
\* whose feed still carries T returns nothing, so T is not notified.
C18_CommittedBeforeSend ==
    [][/\ (NotifyStep /\ sent' # << >> =>
              /\ last_release = new_release.tag_name
              /\ Persisted(cache_file) = new_release.tag_name)
       /\ (CarriesUndelivered => pc' = "sleep" /\ new_release' = Nothing)]_vars

\* C18 (amended): when send_message is called for the record of tag T, the
\* in-memory identifier is already T and _save_cache has run, so that the
\* persisted identifier is T when the write succeeded; if the send fails or
\* the process is stopped before it, every later check whose feed still
\* carries T returns nothing in the same process, and after a restart when
\* the cache write of T had succeeded.
C18_CommittedInMemoryBeforeSend ==
    [][/\ (NotifyStep /\ sent' # << >> =>
              /\ last_release = new_release.tag_name
              /\ saved # "none"
              /\ (~WriteFailed(saved) => Persisted(cache_file) = new_release.tag_name))
       /\ (CarriesUndelivered /\ undelivered.commit # "lost" => pc' = "sleep" /\ new_release' = Nothing)
       /\ (undelivered.commit = "saved" => Persisted(cache_file) = undelivered.tag)
       /\ (undelivered.commit \in {"saved", "memory"} => last_release = undelivered.tag)]_vars

\* C18 witness: a process started after a check of an earlier process had
\* returned the record of a tag whose release post did not succeed; its
\* check finds the feed still carrying that tag and returns nothing.
C18_Witness ==
    /\ restarted
    /\ last_event = "check"
    /\ pc = "sleep"
    /\ response.kind = "ok"
    /\ undelivered.tag = response.tag_name
    /\ undelivered.commit = "saved"
    /\ returned = {}
    /\ seeded = None
    /\ new_release = Nothing

\* C19: the first run is decided by the in-memory identifier being absent.
\* A failed poll while it is absent leaves it absent and the cache
\* unwritten, whatever the number of calls before; a successful poll while
\* it is absent returns nothing and seeds the state (records the tag and
\* calls _save_cache); once the identifier is set it stays set in the
\* process, and no later check seeds: a changed tag is returned.
C19_FirstRunByAbsence ==
    [][/\ (CheckStep /\ last_release = None /\ response'.kind \in PollFailures =>
              /\ last_release' = None
              /\ cache_file' = cache_file
              /\ saved' = "none"
              /\ seeded' = None
              /\ new_release' = Nothing)
       /\ (CheckStep /\ last_release = None /\ response'.kind = "ok" /\ response'.tag_name # None =>
              /\ pc' = "sleep"
              /\ new_release' = Nothing
              /\ last_release' = response'.tag_name
              /\ seeded' = response'.tag_name
              /\ saved' # "none"
              /\ (~WriteFailed(saved') => Persisted(cache_file') = response'.tag_name))
       /\ (CheckStep /\ last_release # None =>
              /\ last_release' # None
              /\ seeded' = seeded
              /\ (response'.kind = "ok" /\ response'.tag_name \notin {None, last_release} => pc' = "notify" /\ new_release' = response'))
       /\ (last_release # None /\ ~RestartStep => last_release' # None)]_vars

\* C19 witness: a check found the identifier absent and its poll failed:
\* the warning was posted, the identifier is still absent and no cache file
\* has been written, so the next check is a first run again.
C19_Witness ==
    /\ ~restarted
    /\ last_event = "check"
    /\ pc = "sleep"
    /\ response.kind \in {"transport", "http"}
    /\ Len(sent) = 1
    /\ sent[1].kind = "warning"
    /\ last_release = None
    /\ seeded = None
    /\ saved = "none"
    /\ cache_file = FileMissing
    /\ observed_before = {}

====
